---- MODULE Spec2Model ----
(***************************************************************************)
(* Model of d2mapentity.mapEntity (OpenDiablo2): the per-tick motion       *)
(* kernel of a map entity.                                                 *)
(*                                                                         *)
(* Numbers.  The Go code works on float64.  The model uses fixed point:    *)
(* one world unit is Unit model units, so 0.0001 is 1 and 0.01 is 100.     *)
(* Sines and cosines are tabulated per whole degree, scaled by TrigScale.  *)
(* Angles handed to angleToDirection are in sixteenths of a degree, which  *)
(* represents 45 - (360/64)/2 = 42.1875 and 360/64 = 5.625 exactly.        *)
(* Tick durations are in sixtieths of a second.                            *)
(***************************************************************************)
EXTENDS Integers, Sequences, FiniteSets, TLC

\* ------------------------------------------------------------------ bounds
MaxPathLen == 2
MaxCalls == 2
MaxRun == 3

\* --------------------------------------------------------- number formats
Unit == 10000
TrigScale == 10000
TickDen == 60
AngleDen == 16

\* ------------------------------------------------------ program constants
TileSize == 5
FineTol == 1
CoarseTol == 100
DefaultSpeed == 6
NumDirections == 64

\* ---------------------------------------------------------------- inputs
\* createMapEntity(x, y); waypoint tiles; SetTarget(tx, ty), in model units;
\* SetSpeed(speed); Step(tickTime): step lengths 2.5 and 120 at speed 6.
\* SetPath registers "f" and SetTarget registers "g", so that an invoked
\* callback tells which call registered it.
CreatePoints == {<<0, 0>>, <<-3, 2>>}
WaypointTiles == {<<1, 0>>, <<1, 1>>}
TargetCoords == {<<25000, 0>>, <<-3 * Unit, 4 * Unit>>}
Speeds == {-6, 0, 6}
Ticks == {25, 1200}
NoF == "nil"
PathCallbacks == {NoF, "f"}
TargetCallbacks == {NoF, "g"}

\* ----------------------------------------------------------- arithmetic
\* the value of a local variable: the one element of a set of one element
Only(S) == CHOOSE x \in S : TRUE

Abs(a) == IF a < 0 THEN -a ELSE a

\* Go's int(x) and integer division truncate toward zero.
TruncDiv(a, b) == IF a >= 0 THEN a \div b ELSE -((-a) \div b)

\* math.Mod: the result has the sign of the dividend.
TruncMod(a, b) == a - b * TruncDiv(a, b)

\* length * c / TrigScale, truncated toward zero, without overflowing 32 bits.
MulTrig(length, c) ==
    LET l == Abs(length)
        k == Abs(c)
        m == (l \div TrigScale) * k + ((l % TrigScale) * k) \div TrigScale
    IN IF (length < 0) = (c < 0) THEN m ELSE -m

SinTable ==
    << 175, 349, 523, 698, 872, 1045, 1219, 1392, 1564, 1736,
       1908, 2079, 2250, 2419, 2588, 2756, 2924, 3090, 3256, 3420,
       3584, 3746, 3907, 4067, 4226, 4384, 4540, 4695, 4848, 5000,
       5150, 5299, 5446, 5592, 5736, 5878, 6018, 6157, 6293, 6428,
       6561, 6691, 6820, 6947, 7071, 7193, 7314, 7431, 7547, 7660,
       7771, 7880, 7986, 8090, 8192, 8290, 8387, 8480, 8572, 8660,
       8746, 8829, 8910, 8988, 9063, 9135, 9205, 9272, 9336, 9397,
       9455, 9511, 9563, 9613, 9659, 9703, 9744, 9781, 9816, 9848,
       9877, 9903, 9925, 9945, 9962, 9976, 9986, 9994, 9998, 10000 >>

\* sine of k degrees, 0 <= k <= 90, scaled by TrigScale
Sin90(k) == IF k = 0 THEN 0 ELSE SinTable[k]

\* math.Sin and math.Cos of a whole number of degrees in 0..359
Sin(deg) ==
    IF deg <= 90 THEN Sin90(deg)
    ELSE IF deg <= 180 THEN Sin90(180 - deg)
    ELSE IF deg <= 270 THEN -Sin90(deg - 180)
    ELSE -Sin90(360 - deg)

Cos(deg) == Sin((deg + 90) % 360)

\* tan k <= ay / ax, for k in 0..90 and ax, ay >= 0; it holds up to some k only
TanAtMost(k, ay, ax) == Sin90(k) * ax <= Sin90(90 - k) * ay
TanBelow(k, ay, ax) == Sin90(k) * ax < Sin90(90 - k) * ay

\* the largest k in lo..hi with tan k <= ay / ax (strictly below when strict),
\* given that lo is such a k
RECURSIVE LastDegree(_, _, _, _, _)
LastDegree(lo, hi, ay, ax, strict) ==
    IF lo = hi THEN lo
    ELSE Only({IF (IF strict THEN TanBelow(mid, ay, ax) ELSE TanAtMost(mid, ay, ax))
               THEN LastDegree(mid, hi, ay, ax, strict)
               ELSE LastDegree(lo, mid - 1, ay, ax, strict) :
                   mid \in {(lo + hi + 1) \div 2}})

\* floor and ceiling, in whole degrees, of atan(ay / ax) for ax, ay >= 0
FloorAtan(ay, ax) == IF ay = 0 THEN 0 ELSE LastDegree(0, 90, ay, ax, FALSE)
CeilAtan(ay, ax) == IF ay = 0 THEN 0 ELSE LastDegree(0, 89, ay, ax, TRUE) + 1

\* d2common.GetAngleBetween: int(atan2(p1Y - p2Y, p2X - p1X) in degrees),
\* truncated toward zero and brought into [0, 360).
GetAngleBetween(p1X, p1Y, p2X, p2Y) ==
    LET deltaY == p1Y - p2Y
        deltaX == p2X - p1X
        ax == Abs(deltaX)
        ay == Abs(deltaY)
        iResult ==
            IF deltaY >= 0
            THEN (IF deltaX >= 0 THEN FloorAtan(ay, ax) ELSE 180 - CeilAtan(ay, ax))
            ELSE (IF deltaX >= 0 THEN -FloorAtan(ay, ax) ELSE -(180 - CeilAtan(ay, ax)))
    IN IF iResult < 0 THEN iResult + 360
       ELSE IF iResult >= 360 THEN iResult - 360 ELSE iResult

\* d2common.AlmostEqual
AlmostEqual(a, b, threshold) == Abs(a - b) <= threshold

\* d2common.AdjustWithRemainder: <<newValue, remainder>>.  The value advances
\* by the adjustment, is clamped at the target, and what is left over is the
\* remainder.  An adjustment below 0.000001 is below the resolution of the
\* model, that is 0.  A step that points away from the target does not
\* advance toward it: the value stays.
AdjustWithRemainder(sourceValue, adjustment, targetvalue) ==
    LET adjustNegative == adjustment < 0
        maxNegative == targetvalue - sourceValue < 0
        finalValue == sourceValue + adjustment
    IN IF adjustment = 0 THEN <<sourceValue, 0>>
       ELSE IF adjustNegative # maxNegative THEN <<sourceValue, 0>>
       ELSE IF ~adjustNegative
            THEN (IF finalValue > targetvalue
                  THEN <<targetvalue, finalValue - targetvalue>>
                  ELSE <<finalValue, 0>>)
            ELSE (IF finalValue < targetvalue
                  THEN <<targetvalue, finalValue - targetvalue>>
                  ELSE <<finalValue, 0>>)

\* ------------------------------------------------------------ the entity
VARIABLES
    LocationX, LocationY,   \* position, model units
    TileX, TileY,           \* cached tile index
    subcellX, subcellY,     \* cached subcell, model units
    TargetX, TargetY,       \* target, model units
    Speed,                  \* world units per second
    path,                   \* [isNil, elems]: nil slice or a slice of waypoints
    done,                   \* completion callback, NoF when nil
    directioner,            \* TRUE when a direction callback is registered
    \* what the last operation did
    op,                     \* its name
    doneCalled,             \* completion callbacks it invoked, in order
    dirCalled,              \* direction indices it passed to directioner
    popped,                 \* waypoints it popped, in order
    iters,                  \* iterations of the loop in Step
    bigStep,                \* Step only: the step length exceeded the whole route
    goal,                   \* Step only: world position of the last waypoint at entry
    args,                   \* the arguments of a setter
    replaced,               \* the completion callback a setter replaced
    between, clamped, popNear, \* Step only: what the passes of its loop showed
    \* history
    lastPopped,             \* last waypoint popped since the last SetPath
    runSteps, runFires, runF, \* Step calls made at target since done was armed
    nCalls,                 \* calls to the setters so far
    dirLag,                 \* targets assigned while a direction callback was
                            \* registered, less the calls of that callback, so far
    \* direction mapping on its own
    angleIn, dirOut, dirOut360

entityVars == <<LocationX, LocationY, TileX, TileY, subcellX, subcellY,
                TargetX, TargetY, Speed, path, done, directioner>>
obsVars == <<op, doneCalled, dirCalled, popped, iters, bigStep, goal,
             args, replaced, between, clamped, popNear>>
histVars == <<lastPopped, runSteps, runFires, runF, nCalls, dirLag>>
angleVars == <<angleIn, dirOut, dirOut360>>
vars == <<entityVars, obsVars, histVars, angleVars>>

NilPath == [isNil |-> TRUE, elems |-> <<>>]
MkPath(s) == [isNil |-> FALSE, elems |-> s]
NoPoint == <<FALSE, 0, 0>>
NoDir == -1

TileOfFloor(loc) == loc \div (TileSize * Unit)

\* int(m.LocationX / 5)
TileOf(loc) == TruncDiv(loc, TileSize * Unit)

SubcellNoOffset(loc) == TruncMod(loc, TileSize * Unit)

\* 1 + math.Mod(m.LocationX, 5)
SubcellOf(loc) == Unit + TruncMod(loc, TileSize * Unit)


\* --------------------------------------------------------------- queries
HasPathFindingNotNil(p) == ~p.isNil

\* len(m.path) > 0; the length of a nil slice is 0
HasPathFindingOf(p) == Len(p.elems) > 0

IsAtTargetIgnoringPath(lx, ly, tx, ty, p) ==
    /\ Abs(lx - tx) < FineTol
    /\ Abs(ly - ty) < FineTol

IsAtTargetCoarse(lx, ly, tx, ty, p) ==
    /\ Abs(lx - tx) < CoarseTol
    /\ Abs(ly - ty) < CoarseTol
    /\ ~HasPathFindingOf(p)

IsAtTargetAt(lx, ly, tx, ty, p) ==
    /\ Abs(lx - tx) < FineTol
    /\ Abs(ly - ty) < FineTol
    /\ ~HasPathFindingOf(p)

HasPathFinding == HasPathFindingOf(path)
IsAtTarget == IsAtTargetAt(LocationX, LocationY, TargetX, TargetY, path)

\* float64(m.TileX) + float64(m.subcellX) / 5.0, in model units
PositionF(tile, subcell) == tile * Unit + TruncDiv(subcell, TileSize)
GetPositionFX == PositionF(TileX, subcellX)
GetPositionFY == PositionF(TileY, subcellY)
GetPositionX == TileX
GetPositionY == TileY

\* ------------------------------------------------------ direction mapping
angleToDirectionNoWrap(angle) ==
    LET degreesPerDirection == (360 * AngleDen) \div NumDirections
        offset == 45 * AngleDen - degreesPerDirection \div 2
        newDirection == TruncDiv(angle - offset, degreesPerDirection)
    IN IF newDirection >= 64 THEN newDirection - 64 ELSE newDirection

\* angle in sixteenths of a degree
angleToDirection(angle) ==
    LET degreesPerDirection == (360 * AngleDen) \div NumDirections
        offset == 45 * AngleDen - degreesPerDirection \div 2
        newDirection == TruncDiv(angle - offset, degreesPerDirection)
    IN IF newDirection >= 64 THEN newDirection - 64
       ELSE IF newDirection < 0 THEN 64 + newDirection
       ELSE newDirection

\* the index SetTarget passes to m.directioner
TargetDirection(lx, ly, tx, ty) ==
    angleToDirection(AngleDen * (359 - GetAngleBetween(lx, ly, tx, ty)))

\* ------------------------------------------------------------------ Step
getStepLengthAlongX(tickTime, speed, lx, ly, tx, ty) ==
    Only({<<MulTrig(length, c), 0>> :
            length \in {TruncDiv(tickTime * speed * Unit, TickDen)},
            c \in {Cos(359 - GetAngleBetween(lx, ly, tx, ty))}})

\* <<oneStepX, oneStepY>>
getStepLength(tickTime, speed, lx, ly, tx, ty) ==
    Only({<<MulTrig(length, c), MulTrig(length, s)>> :
            length \in {TruncDiv(tickTime * speed * Unit, TickDen)},
            c \in {Cos(359 - GetAngleBetween(lx, ly, tx, ty))},
            s \in {Sin(359 - GetAngleBetween(lx, ly, tx, ty))}})

DoneKept(d) == d

\* m.done = nil, after m.done() has been called
DoneAfterCall(d) == NoF

ZeroedStepHalving(loc, target, step) ==
    IF AlmostEqual(loc - target, 0, FineTol) THEN TruncDiv(step, 2) ELSE step

\* if AlmostEqual(m.LocationX-m.TargetX, 0, 0.0001) { stepX = 0 }
ZeroedStep(loc, target, step) ==
    IF AlmostEqual(loc - target, 0, FineTol) THEN 0 ELSE step

NearTargetOnX(lx, ly, tx, ty) == AlmostEqual(lx, tx, CoarseTol)

\* the condition under which Step pops a waypoint or snaps to the target
NearTarget(lx, ly, tx, ty) ==
    AlmostEqual(lx, tx, CoarseTol) /\ AlmostEqual(ly, ty, CoarseTol)

RestOfPathSkipping(elems) == IF Len(elems) > 1 THEN Tail(Tail(elems)) ELSE <<>>

\* m.path[1:], or an empty slice when one waypoint was left
RestOfPath(elems) == IF Len(elems) > 1 THEN Tail(elems) ELSE <<>>

DirectionerCallsNone(hasDirectioner, lx, ly, tx, ty) == <<>>

\* the calls SetTarget makes to m.directioner: one if it is not nil
DirectionerCalls(hasDirectioner, lx, ly, tx, ty) ==
    IF hasDirectioner THEN <<TargetDirection(lx, ly, tx, ty)>> ELSE <<>>

\* b lies between a and t, ends included
Between(a, b, t) == (a <= b /\ b <= t) \/ (t <= b /\ b <= a)

\* a step whose amount is at least the distance left from a to t leaves the
\* value at t
Clamped(a, step, b, t) ==
    (step # 0 /\ Abs(step) >= Abs(t - a)) => b = t

\* One pass of the for loop, with the zeroed steps sx0, sy0 and the results
\* ax, ay of AdjustWithRemainder on the two axes.
\* s: [lx, ly, tileX, tileY, subX, subY, tx, ty, p, stepX, stepY, dirs, pops, n]
\* and what the passes so far have shown: between (every position written lay
\* between the one before and the target), clamped (every step of at least
\* the distance left ended on the target, whichever way it pointed), popNear
\* (every pop was made within 0.01 of the target).
StepPass(s, sx0, sy0, ax, ay, hasDirectioner) ==
    LET lx == ax[1]
        ly == ay[1]
        near == NearTarget(lx, ly, s.tx, s.ty)
        pop == near /\ Len(s.p.elems) > 0
        snap == near /\ ~pop
        wp == Head(s.p.elems)
        ntx == wp[1] * TileSize * Unit
        nty == wp[2] * TileSize * Unit
        flx == IF snap THEN s.tx ELSE lx
        fly == IF snap THEN s.ty ELSE ly
        t == [lx |-> flx, ly |-> fly,
              tileX |-> TileOf(flx), tileY |-> TileOf(fly),
              subX |-> SubcellOf(flx), subY |-> SubcellOf(fly),
              tx |-> IF pop THEN ntx ELSE s.tx,
              ty |-> IF pop THEN nty ELSE s.ty,
              p |-> IF pop THEN MkPath(RestOfPath(s.p.elems)) ELSE s.p,
              stepX |-> ax[2], stepY |-> ay[2],
              dirs |-> IF pop
                       THEN s.dirs \o DirectionerCalls(hasDirectioner, lx, ly, ntx, nty)
                       ELSE s.dirs,
              pops |-> IF pop THEN Append(s.pops, wp) ELSE s.pops,
              n |-> s.n + 1,
              between |-> /\ s.between
                          /\ Between(s.lx, lx, s.tx) /\ Between(lx, flx, s.tx)
                          /\ Between(s.ly, ly, s.ty) /\ Between(ly, fly, s.ty),
              clamped |-> /\ s.clamped
                          /\ Clamped(s.lx, sx0, lx, s.tx)
                          /\ Clamped(s.ly, sy0, ly, s.ty),
              popNear |-> /\ s.popNear
                          /\ pop => /\ Abs(lx - s.tx) <= CoarseTol
                                    /\ Abs(ly - s.ty) <= CoarseTol]
    IN t

\* the passes of the for loop, repeated until both step components are zero
RECURSIVE StepLoop(_, _)
StepLoop(s, hasDirectioner) ==
    Only({IF t.stepX = 0 /\ t.stepY = 0 THEN t ELSE StepLoop(t, hasDirectioner) :
            t \in {StepPass(s, sx0, sy0, ax, ay, hasDirectioner) :
                       sx0 \in {ZeroedStep(s.lx, s.tx, s.stepX)},
                       sy0 \in {ZeroedStep(s.ly, s.ty, s.stepY)},
                       ax \in {AdjustWithRemainder(
                                  s.lx, ZeroedStep(s.lx, s.tx, s.stepX), s.tx)},
                       ay \in {AdjustWithRemainder(
                                  s.ly, ZeroedStep(s.ly, s.ty, s.stepY), s.ty)}}})

\* the state in which the loop of Step(tickTime) ends
StepMove(tickTime) ==
    Only({StepLoop([lx |-> LocationX, ly |-> LocationY,
                    tileX |-> TileX, tileY |-> TileY,
                    subX |-> subcellX, subY |-> subcellY,
                    tx |-> TargetX, ty |-> TargetY, p |-> path,
                    stepX |-> st[1], stepY |-> st[2],
                    dirs |-> <<>>, pops |-> <<>>, n |-> 0,
                    between |-> TRUE, clamped |-> TRUE, popNear |-> TRUE],
                   directioner) :
            st \in {getStepLength(tickTime, Speed, LocationX, LocationY,
                                  TargetX, TargetY)}})

\* ------------------------------------------------- measures of the route
WorldOf(wp) == <<wp[1] * TileSize * Unit, wp[2] * TileSize * Unit>>

RECURSIVE RouteLength(_, _, _)
\* sum of |dx| + |dy| over the legs from (x, y) through the waypoints ws;
\* at least the sum of the straight-line leg distances
RouteLength(x, y, ws) ==
    IF ws = <<>> THEN 0
    ELSE LET w == WorldOf(Head(ws))
         IN Abs(w[1] - x) + Abs(w[2] - y) + RouteLength(w[1], w[2], Tail(ws))

WholeRoute ==
    Abs(TargetX - LocationX) + Abs(TargetY - LocationY)
        + RouteLength(TargetX, TargetY, path.elems)

RouteEnd ==
    IF path.elems = <<>> THEN <<TRUE, TargetX, TargetY>>
    ELSE LET w == WorldOf(path.elems[Len(path.elems)]) IN <<TRUE, w[1], w[2]>>


\* ------------------------------------------------------------ operations
Paths == {MkPath(ws) : ws \in UNION {[1..n -> WaypointTiles] : n \in 0..MaxPathLen}}

Sat(n, max) == IF n < max THEN n + 1 ELSE max

\* createMapEntity(x, y)
Init ==
    \E c \in CreatePoints : LET x == c[1]  y == c[2] IN
        /\ LocationX = x * Unit
        /\ LocationY = y * Unit
        /\ TargetX = x * Unit
        /\ TargetY = y * Unit
        /\ TileX = TruncDiv(x, 5)
        /\ TileY = TruncDiv(y, 5)
        /\ subcellX = Unit + TruncMod(x * Unit, 5 * Unit)
        /\ subcellY = Unit + TruncMod(y * Unit, 5 * Unit)
        /\ Speed = DefaultSpeed
        /\ path = MkPath(<<>>)
        /\ done = NoF
        /\ directioner = FALSE
        /\ op = "createMapEntity"
        /\ doneCalled = <<>>
        /\ dirCalled = <<>>
        /\ popped = <<>>
        /\ iters = 0
        /\ bigStep = FALSE
        /\ goal = NoPoint
        /\ args = <<>>
        /\ replaced = NoF
        /\ between = TRUE
        /\ clamped = TRUE
        /\ popNear = TRUE
        /\ dirLag = 0
        /\ lastPopped = NoPoint
        /\ runSteps = 0
        /\ runFires = 0
        /\ runF = NoF
        /\ nCalls = 0
        /\ angleIn = 0
        /\ dirOut = NoDir
        /\ dirOut360 = NoDir

Quiet(name) ==
    /\ op' = name
    /\ doneCalled' = <<>>
    /\ popped' = <<>>
    /\ iters' = 0
    /\ bigStep' = FALSE
    /\ goal' = NoPoint
    /\ between' = TRUE
    /\ clamped' = TRUE
    /\ popNear' = TRUE

\* the calls and assignments of an operation, added to the counts
Counted(calls, assigned) ==
    dirLag' = dirLag + (IF directioner THEN assigned ELSE 0) - Len(calls)

\* the owner of the entity assigns m.directioner
SetDirectioner ==
    /\ ~directioner
    /\ directioner' = TRUE
    /\ Quiet("SetDirectioner")
    /\ dirCalled' = <<>>
    /\ args' = <<>>
    /\ replaced' = NoF
    /\ UNCHANGED <<LocationX, LocationY, TileX, TileY, subcellX, subcellY,
                   TargetX, TargetY, Speed, path, done>>
    /\ UNCHANGED <<histVars, angleVars>>

SetPathKeepingDone(newPath, newDone) ==
    /\ nCalls < MaxCalls
    /\ path' = newPath
    /\ done' = IF newDone = NoF THEN done ELSE newDone
    /\ Quiet("SetPath")
    /\ dirCalled' = <<>>
    /\ args' = <<newPath, newDone>>
    /\ replaced' = done
    /\ UNCHANGED dirLag
    /\ lastPopped' = NoPoint
    /\ runSteps' = 0
    /\ runFires' = 0
    /\ runF' = NoF
    /\ nCalls' = nCalls + 1
    /\ UNCHANGED <<LocationX, LocationY, TileX, TileY, subcellX, subcellY,
                   TargetX, TargetY, Speed, directioner>>
    /\ UNCHANGED angleVars

\* SetPath(path, done): m.path = path; m.done = done
SetPath(newPath, newDone) ==
    /\ nCalls < MaxCalls
    /\ path' = newPath
    /\ done' = newDone
    /\ Quiet("SetPath")
    /\ dirCalled' = <<>>
    /\ args' = <<newPath, newDone>>
    /\ replaced' = done
    /\ UNCHANGED dirLag
    /\ lastPopped' = NoPoint
    /\ runSteps' = 0
    /\ runFires' = 0
    /\ runF' = NoF
    /\ nCalls' = nCalls + 1
    /\ UNCHANGED <<LocationX, LocationY, TileX, TileY, subcellX, subcellY,
                   TargetX, TargetY, Speed, directioner>>
    /\ UNCHANGED angleVars

ClearPathDroppingDone ==
    /\ nCalls < MaxCalls
    /\ path' = NilPath
    /\ done' = NoF
    /\ Quiet("ClearPath")
    /\ dirCalled' = <<>>
    /\ args' = <<>>
    /\ replaced' = NoF
    /\ UNCHANGED dirLag
    /\ nCalls' = nCalls + 1
    /\ UNCHANGED <<LocationX, LocationY, TileX, TileY, subcellX, subcellY,
                   TargetX, TargetY, Speed, directioner>>
    /\ UNCHANGED <<lastPopped, runSteps, runFires, runF>>
    /\ UNCHANGED angleVars

\* ClearPath(): m.path = nil
ClearPath ==
    /\ nCalls < MaxCalls
    /\ path' = NilPath
    /\ Quiet("ClearPath")
    /\ dirCalled' = <<>>
    /\ args' = <<>>
    /\ replaced' = NoF
    /\ UNCHANGED dirLag
    /\ nCalls' = nCalls + 1
    /\ UNCHANGED <<LocationX, LocationY, TileX, TileY, subcellX, subcellY,
                   TargetX, TargetY, Speed, done, directioner>>
    /\ UNCHANGED <<lastPopped, runSteps, runFires, runF>>
    /\ UNCHANGED angleVars

SetSpeed(speed) ==
    /\ nCalls < MaxCalls
    /\ Speed' = speed
    /\ Quiet("SetSpeed")
    /\ dirCalled' = <<>>
    /\ args' = <<speed>>
    /\ replaced' = NoF
    /\ UNCHANGED dirLag
    /\ nCalls' = nCalls + 1
    /\ UNCHANGED <<LocationX, LocationY, TileX, TileY, subcellX, subcellY,
                   TargetX, TargetY, path, done, directioner>>
    /\ UNCHANGED <<lastPopped, runSteps, runFires, runF>>
    /\ UNCHANGED angleVars

SetTarget(tx, ty, newDone) ==
    /\ nCalls < MaxCalls
    /\ TargetX' = tx
    /\ TargetY' = ty
    /\ done' = newDone
    /\ dirCalled' = DirectionerCalls(directioner, LocationX, LocationY, tx, ty)
    /\ Quiet("SetTarget")
    /\ args' = <<tx, ty, newDone>>
    /\ replaced' = done
    /\ Counted(dirCalled', 1)
    /\ runSteps' = 0
    /\ runFires' = 0
    /\ runF' = NoF
    /\ nCalls' = nCalls + 1
    /\ UNCHANGED <<LocationX, LocationY, TileX, TileY, subcellX, subcellY,
                   Speed, path, directioner>>
    /\ UNCHANGED lastPopped
    /\ UNCHANGED angleVars

\* Step(tickTime) when m.IsAtTarget(): call and clear m.done, then return
StepAtTarget(tickTime) ==
    /\ IsAtTarget
    /\ doneCalled' = IF done # NoF THEN <<done>> ELSE <<>>
    /\ done' = IF done # NoF THEN DoneAfterCall(done) ELSE done
    /\ op' = "Step"
    /\ dirCalled' = <<>>
    /\ popped' = <<>>
    /\ iters' = 0
    /\ bigStep' = FALSE
    /\ goal' = NoPoint
    /\ args' = <<>>
    /\ replaced' = NoF
    /\ between' = TRUE
    /\ clamped' = TRUE
    /\ popNear' = TRUE
    /\ UNCHANGED dirLag
    /\ IF runSteps > 0 \/ done # NoF
       THEN /\ runSteps' = Sat(runSteps, MaxRun)
            /\ runFires' = IF done # NoF THEN Sat(runFires, 2) ELSE runFires
            /\ runF' = IF runSteps = 0 THEN done ELSE runF
       ELSE UNCHANGED <<runSteps, runFires, runF>>
    /\ UNCHANGED <<LocationX, LocationY, TileX, TileY, subcellX, subcellY,
                   TargetX, TargetY, Speed, path, directioner>>
    /\ UNCHANGED <<lastPopped, nCalls>>
    /\ UNCHANGED angleVars

\* Step(tickTime) otherwise: move along the route
StepAdvance(tickTime) ==
    /\ ~IsAtTarget
    /\ \E r \in {StepMove(tickTime)} :
          /\ LocationX' = r.lx
          /\ LocationY' = r.ly
          /\ TileX' = r.tileX
          /\ TileY' = r.tileY
          /\ subcellX' = r.subX
          /\ subcellY' = r.subY
          /\ TargetX' = r.tx
          /\ TargetY' = r.ty
          /\ path' = r.p
          /\ dirCalled' = r.dirs
          /\ popped' = r.pops
          /\ iters' = r.n
          /\ between' = r.between
          /\ clamped' = r.clamped
          /\ popNear' = r.popNear
          /\ Counted(r.dirs, Len(r.pops))
          /\ lastPopped' = IF r.pops = <<>> THEN lastPopped
                           ELSE LET w == WorldOf(r.pops[Len(r.pops)])
                                IN <<TRUE, w[1], w[2]>>
    /\ op' = "Step"
    /\ doneCalled' = <<>>
    /\ bigStep' = (TruncDiv(tickTime * Speed * Unit, TickDen) > WholeRoute)
    /\ goal' = RouteEnd
    /\ args' = <<>>
    /\ replaced' = NoF
    /\ runSteps' = 0
    /\ runFires' = 0
    /\ runF' = NoF
    /\ UNCHANGED <<Speed, done, directioner, nCalls>>
    /\ UNCHANGED angleVars

Step(tickTime) == StepAtTarget(tickTime) \/ StepAdvance(tickTime)

Next ==
    \/ SetDirectioner
    \/ \E p \in Paths, d \in PathCallbacks : SetPath(p, d)
    \/ ClearPath
    \/ \E v \in Speeds : SetSpeed(v)
    \/ \E t \in TargetCoords, d \in TargetCallbacks : SetTarget(t[1], t[2], d)
    \/ \E k \in Ticks : Step(k)

Spec == Init /\ [][Next]_vars

\* the simulation loop calls Step on every frame
SpecLive == Spec /\ WF_vars(\E k \in Ticks : Step(k))


\* ------------------------------------------- direction mapping on its own
AngleInputs == 0..(360 * AngleDen - 1)

InitAngle ==
    /\ Init
    /\ LocationX = 0

\* pick an angle
ChooseAngle(a) ==
    /\ dirOut # NoDir
    /\ angleIn' = a
    /\ dirOut' = NoDir
    /\ dirOut360' = NoDir
    /\ UNCHANGED <<entityVars, obsVars, histVars>>

\* apply angleToDirection to it and to the angle one turn further
MapAngle ==
    /\ dirOut = NoDir
    /\ dirOut' = angleToDirection(angleIn)
    /\ dirOut360' = angleToDirection(angleIn + 360 * AngleDen)
    /\ UNCHANGED <<angleIn, entityVars, obsVars, histVars>>

NextAngle ==
    \/ \E a \in AngleInputs : ChooseAngle(a)
    \/ MapAngle

SpecAngle == InitAngle /\ [][NextAngle]_vars


\* ================================================================ claims
WithinFine ==
    /\ Abs(LocationX - TargetX) < FineTol
    /\ Abs(LocationY - TargetY) < FineTol

QueueEmpty == path.isNil \/ path.elems = <<>>

FloatTol == FineTol

\* C1: from a state at target with a completion callback registered, any
\* number of consecutive Step calls (no SetPath or SetTarget in between)
\* invokes the callback exactly once in total: the first Step invokes it and
\* clears it, every later Step invokes nothing.
C1_FiresExactlyOnce ==
    runSteps >= 1 =>
        /\ runFires = 1
        /\ done = NoF
        /\ op = "Step" => doneCalled = (IF runSteps = 1 THEN <<runF>> ELSE <<>>)

C1_Witness ==
    /\ runSteps = MaxRun
    /\ runFires = 1
    /\ runF = "f"
    /\ op = "Step"

\* C2: the completion callback is invoked only in a state where the queue
\* is empty and the position is within 0.0001 of the target on both axes;
\* the callback given to SetPath is invoked only at the world coordinates of
\* the last waypoint popped from that path, if any was popped.
C2_DoneOnlyAtFinalTarget ==
    doneCalled # <<>> =>
        /\ QueueEmpty
        /\ WithinFine
        /\ (doneCalled = <<"f">> /\ lastPopped[1]) =>
               /\ Abs(LocationX - lastPopped[2]) < FineTol
               /\ Abs(LocationY - lastPopped[3]) < FineTol

C2_Witness ==
    /\ doneCalled = <<"f">>
    /\ lastPopped = <<TRUE, 5 * Unit, 5 * Unit>>
    /\ LocationX = 5 * Unit
    /\ LocationY = 5 * Unit

\* C3, as claimed: the Step call in which the position comes within 0.0001
\* of the final target, with a completion callback registered, invokes it.
C3_FiresOnArrivalTick ==
    [][(op' = "Step" /\ done # NoF /\ ~(WithinFine /\ QueueEmpty)
            /\ (WithinFine /\ QueueEmpty)')
        => doneCalled' # <<>>]_vars

\* C3, amended: a Step call invokes the completion callback exactly when it
\* starts with the position within 0.0001 of the target, the queue empty and
\* a callback registered, that is in the Step call after the one that moved
\* the entity to its final target; the Step call that moves the entity
\* invokes nothing.
C3_FiresOnNextTick ==
    [][op' = "Step" =>
        /\ (doneCalled' # <<>>) = (WithinFine /\ QueueEmpty /\ done # NoF)
        /\ doneCalled' # <<>> =>
              /\ doneCalled' = <<done>>
              /\ LocationX' = LocationX
              /\ LocationY' = LocationY]_vars

C3_Witness ==
    /\ op = "Step"
    /\ iters > 0
    /\ doneCalled = <<>>
    /\ done # NoF
    /\ WithinFine
    /\ QueueEmpty

\* C4: a single Step call whose step length exceeds the sum of all leg
\* distances pops every waypoint, leaves the queue empty and leaves the
\* position exactly at the last waypoint.
C4_OneStepConsumesRoute ==
    (op = "Step" /\ bigStep) =>
        /\ path.elems = <<>>
        /\ LocationX = goal[2]
        /\ LocationY = goal[3]

C6_PositionFIsPosition ==
    /\ Abs(GetPositionFX - TruncDiv(LocationX, TileSize)) <= FloatTol
    /\ Abs(GetPositionFY - TruncDiv(LocationY, TileSize)) <= FloatTol

\* C6, amended: GetPositionF equals position / TILE_SIZE + 1 / TILE_SIZE on
\* each axis, up to floating tolerance: it lies one subcell beyond the
\* position.
C6_PositionFIsOneSubcellOn ==
    /\ Abs(GetPositionFX - (TruncDiv(LocationX, TileSize) + (Unit \div TileSize))) <= FloatTol
    /\ Abs(GetPositionFY - (TruncDiv(LocationY, TileSize) + (Unit \div TileSize))) <= FloatTol

C6_Witness ==
    /\ op = "Step"
    /\ iters > 0
    /\ LocationX < 0
    /\ LocationX % Unit # 0
    /\ LocationY % Unit # 0

\* C7: the cached tile index is floor(position / 5) and the cached subcell is
\* 1 + (position mod 5), in [1, 6), on each axis, for negative positions too.
C7_TileIsFloor ==
    /\ TileX = LocationX \div (TileSize * Unit)
    /\ TileY = LocationY \div (TileSize * Unit)
    /\ subcellX = Unit + (LocationX % (TileSize * Unit))
    /\ subcellY = Unit + (LocationY % (TileSize * Unit))
    /\ subcellX >= Unit /\ subcellX < (TileSize + 1) * Unit
    /\ subcellY >= Unit /\ subcellY < (TileSize + 1) * Unit

Wrap64(n) == IF n >= 64 THEN n - 64 ELSE IF n < 0 THEN n + 64 ELSE n

\* C8: angleToDirection(a) is floor((a - 42.1875) / 5.625) wrapped into
\* [0, 64) by adding or subtracting 64 once, also for angles below 42.1875.
C8_DirectionIsFloor ==
    dirOut # NoDir =>
        dirOut = Wrap64((angleIn - (45 * AngleDen - 45)) \div 90)

\* C9: angleToDirection(a + 360) = angleToDirection(a) for a in [0, 360),
\* and angleToDirection(45) = 0.
C9_DirectionPeriodic ==
    dirOut # NoDir =>
        /\ dirOut360 = dirOut
        /\ angleIn = 45 * AngleDen => dirOut = 0

\* C10: every direction index passed to the direction callback, by SetTarget
\* or by a waypoint pop inside Step, is an integer in [0, 64).
C10_DirectionInRange ==
    \A i \in 1..Len(dirCalled) : dirCalled[i] \in 0..(NumDirections - 1)

C10_Witness ==
    /\ op = "Step"
    /\ popped # <<>>
    /\ Len(dirCalled) = Len(popped)
    /\ dirCalled[1] >= 57

\* C11: the direction callback is invoked once per target assignment and at
\* no other time.  With a direction selector registered, the invocations so
\* far number the external SetTarget calls plus the waypoints popped by Step;
\* a Step call invokes it once for each waypoint it pops, so not at all when
\* it pops none; SetPath, ClearPath and SetSpeed never invoke it; SetTarget
\* invokes it once, and not at all when no selector is registered.
C11_DirectionOncePerTarget ==
    /\ dirLag = 0
    /\ op \in {"createMapEntity", "SetDirectioner", "SetPath", "ClearPath", "SetSpeed"}
          => dirCalled = <<>>
    /\ op = "Step" => Len(dirCalled) = (IF directioner THEN Len(popped) ELSE 0)
    /\ op = "SetTarget" => Len(dirCalled) = (IF directioner THEN 1 ELSE 0)

C11_Witness ==
    /\ op = "Step"
    /\ directioner
    /\ Len(popped) = 2
    /\ Len(dirCalled) = 2

\* C12: SetPath(waypoints, onArrive) makes waypoints the queue and onArrive
\* the completion callback, whatever they were before; it leaves position,
\* tile, subcell, target and speed as they were and invokes no callback; with
\* an empty waypoint list HasPathFinding is false afterwards.  A callback
\* that was replaced is never invoked: every invocation is of the callback
\* registered at the time.
C12_SetPathReplaces ==
    [][/\ op' = "SetPath" =>
            /\ path' = args'[1]
            /\ done' = args'[2]
            /\ UNCHANGED <<LocationX, LocationY, TileX, TileY,
                           subcellX, subcellY, TargetX, TargetY, Speed>>
            /\ doneCalled' = <<>>
            /\ dirCalled' = <<>>
            /\ args'[1].elems = <<>> => ~HasPathFinding'
       /\ doneCalled' # <<>> => doneCalled' = <<done>>]_vars

C12_Witness ==
    /\ op = "SetPath"
    /\ replaced = "g"
    /\ done = NoF
    /\ args[1].elems = <<>>
    /\ ~HasPathFinding
    /\ ~WithinFine

\* C13: ClearPath empties the queue and leaves position, target, speed and
\* the registered completion callback as they were.  While the queue stays
\* cleared, a Step call assigns no target and pops nothing, moves the
\* position no further than the target, leaves it in place once it is at the
\* target, and invokes the retained callback exactly when it starts at the
\* target with the callback registered, unregistering it, so that it fires
\* once.
C13_ClearPathKeepsTarget ==
    [][/\ op' = "ClearPath" =>
            /\ path'.isNil
            /\ ~HasPathFinding'
            /\ UNCHANGED <<LocationX, LocationY, TileX, TileY,
                           subcellX, subcellY, TargetX, TargetY, Speed, done>>
            /\ doneCalled' = <<>>
            /\ dirCalled' = <<>>
       /\ (path.isNil /\ op' = "Step") =>
            /\ UNCHANGED <<TargetX, TargetY, path>>
            /\ popped' = <<>>
            /\ dirCalled' = <<>>
            /\ between'
            /\ doneCalled' = (IF WithinFine /\ done # NoF THEN <<done>> ELSE <<>>)
            /\ done' = (IF WithinFine THEN NoF ELSE done)
            /\ WithinFine => UNCHANGED <<LocationX, LocationY>>]_vars

C13_Witness ==
    /\ path.isNil
    /\ op = "Step"
    /\ doneCalled = <<"g">>
    /\ done = NoF
    /\ LocationX = 25000
    /\ LocationY = 0
    /\ TargetX = 25000

\* C14: waypoints are consumed first in, first out.  The waypoints a Step
\* call pops are a prefix of the queue it started with, and the queue it
\* leaves is the rest in the same order, so each pop removes exactly the
\* head; the target after the call is the last popped waypoint times 5 on
\* both axes, and the completion callback is the same as before.  Every pop
\* is made with the position within 0.01 of the target on both axes; a Step
\* call that pops nothing leaves target and queue as they were, and then a
\* non-empty queue means the position is not within 0.01 of the target.
C14_PopsInOrder ==
    [][op' = "Step" =>
          /\ path.elems = popped' \o path'.elems
          /\ popNear'
          /\ popped' # <<>> =>
                /\ <<TargetX', TargetY'>> = WorldOf(popped'[Len(popped')])
                /\ done' = done
          /\ popped' = <<>> =>
                /\ UNCHANGED <<TargetX, TargetY, path>>
                /\ path.elems # <<>> =>
                      ~NearTarget(LocationX', LocationY', TargetX', TargetY')]_vars

C14_Witness ==
    /\ op = "Step"
    /\ popped = <<<<1, 0>>>>
    /\ path.elems = <<<<1, 1>>>>
    /\ TargetX = 5 * Unit
    /\ TargetY = 0
    /\ done = "f"
    /\ LocationX = 5 * Unit

\* C15: a Step call made while IsAtTarget is true changes nothing but the
\* completion callback.  Position, tile, subcell, target, speed and the
\* queue, which is empty, stay as they were; the direction callback is not
\* invoked and nothing is popped; the completion callback is invoked exactly
\* if one is registered, and none is registered afterwards.
C15_StepAtTargetOnlyFires ==
    [][(IsAtTarget /\ op' = "Step") =>
          /\ UNCHANGED <<LocationX, LocationY, TileX, TileY, subcellX, subcellY,
                         TargetX, TargetY, Speed, path>>
          /\ QueueEmpty
          /\ dirCalled' = <<>>
          /\ popped' = <<>>
          /\ doneCalled' = (IF done # NoF THEN <<done>> ELSE <<>>)
          /\ done' = NoF]_vars

C15_Witness ==
    /\ op = "Step"
    /\ doneCalled = <<"f">>
    /\ done = NoF
    /\ ~path.isNil
    /\ LocationX = 5 * Unit
    /\ LocationY = 5 * Unit
    /\ directioner

\* C16: every Step call terminates, whatever the state, the speed (positive,
\* zero or negative), the tick duration and the queue: its loop makes at most
\* as many passes as the queue held at entry, plus 2.  The queue at entry is
\* what the call popped followed by what it left.
C16_LoopBounded ==
    op = "Step" => iters <= Len(popped) + Len(path.elems) + 2

C16_Witness ==
    /\ op = "Step"
    /\ popped # <<>>
    /\ iters = Len(popped) + Len(path.elems) + 2

\* C17: Step never overshoots.  After a Step call with non-negative speed,
\* on each axis every position the call wrote lies between the position
\* before it and the target of the leg, ends included, and whenever the step
\* amount on an axis was at least the distance left the position was set to
\* the target.
C17_NeverOvershoots ==
    (op = "Step" /\ Speed >= 0) => (between /\ clamped)

\* C18: no stall.  Once the other operations have stopped being called and
\* the speed is positive, repeated Step calls eventually empty the queue and
\* leave the entity at its target for good, IsAtTarget true and the
\* completion callback unregistered.  No Step call changes the end of the
\* route, the last waypoint or the target when the queue is empty, so that
\* is where the entity arrives, and a Step call unregisters the completion
\* callback only by invoking it.
Settled ==
    /\ IsAtTarget
    /\ LocationX = TargetX
    /\ LocationY = TargetY
    /\ done = NoF

C18_NoStall ==
    /\ [][op' = "Step" =>
            /\ RouteEnd' = RouteEnd
            /\ done' # done => doneCalled' = <<done>>]_vars
    /\ <>[](Speed > 0 => Settled)

C18_Witness ==
    /\ Settled
    /\ op = "Step"
    /\ doneCalled = <<"f">>
    /\ lastPopped = <<TRUE, 5 * Unit, 5 * Unit>>
    /\ LocationX = 5 * Unit
    /\ LocationY = 5 * Unit
    /\ nCalls = 1
    /\ Speed > 0

\* C19: cache coherence.  After creation and after every operation the
\* cached tile is the position divided by 5 and truncated toward zero, and
\* the cached subcell is 1 plus the remainder of the position by 5, with the
\* sign of the position, on both axes: what the derivation in Step gives for
\* the current position.
C19_CacheCoherent ==
    /\ TileX = TruncDiv(LocationX, TileSize * Unit)
    /\ TileY = TruncDiv(LocationY, TileSize * Unit)
    /\ subcellX = Unit + TruncMod(LocationX, TileSize * Unit)
    /\ subcellY = Unit + TruncMod(LocationY, TileSize * Unit)

C19_Witness ==
    /\ op = "Step"
    /\ LocationX < 0
    /\ TruncMod(LocationX, Unit) # 0
    /\ TileX = 0
    /\ subcellX < Unit
    /\ TileX = TileOf(LocationX)
    /\ subcellX = SubcellOf(LocationX)

\* C20: SetTarget(tx, ty, done) changes only the target and the completion
\* callback.  Position, tile, subcell, speed and the queue stay as they were,
\* the target becomes (tx, ty) and the callback becomes done, nil included,
\* and no completion callback is invoked.  The waypoints still queued are
\* kept: Step pops them from the head, in order, and only once the position
\* is within 0.01 of the target of the time.  A callback that was replaced
\* is never invoked: every invocation is of the callback registered at the
\* time.
C20_SetTargetKeepsQueue ==
    [][/\ op' = "SetTarget" =>
            /\ UNCHANGED <<LocationX, LocationY, TileX, TileY,
                           subcellX, subcellY, Speed, path>>
            /\ TargetX' = args'[1]
            /\ TargetY' = args'[2]
            /\ done' = args'[3]
            /\ doneCalled' = <<>>
            /\ popped' = <<>>
       /\ op' = "Step" =>
            /\ popNear'
            /\ popped' \o path'.elems = path.elems
            /\ doneCalled' \in {<<>>, <<done>>}]_vars

C20_Witness ==
    /\ op = "Step"
    /\ popped = <<<<1, 0>>>>
    /\ LocationX = -3 * Unit
    /\ LocationY = 4 * Unit
    /\ TargetX = 5 * Unit
    /\ TargetY = 0
    /\ done = "g"

====
